---- MODULE Spec2Model ----
(***************************************************************************)
(* Graph-Analyzer: the DiGraph facade (lib/DiGraph.py) over dense          *)
(* adjacency matrices, with cycle enumeration and greedy reduction         *)
(* (lib/cycles.py), matrix conversion (lib/matrices.py), Kahn ordering     *)
(* (lib/topo.py) and the four shortest-path routines (lib/methods).        *)
(*                                                                         *)
(* Vertices are 0..N-1 as in the code.  A matrix is a function             *)
(* [V -> [V -> Int]]; Python lists are sequences.  float("inf") is the     *)
(* number INF with absorbing addition (Plus); every finite value of a run  *)
(* stays far below it.                                                     *)
(***************************************************************************)
EXTENDS Integers, Sequences, FiniteSets, TLC

\* Number of vertices of the graphs explored.
N == 3
\* Largest number of edges (nonzero entries) of a constructed matrix.
MaxEdges == 3
\* Largest number of heap pops of one Dijkstra run that is followed; a run
\* that needs more is a run that never returns.
MaxPops == 10
\* Largest number of edges of a graph whose cycle list is queried, and largest
\* skip of a query.
MaxCycleEdges == 4
MaxSkip == 2
\* float("inf")
INF == 1000

V == 0..(N - 1)
Weights == {-1, 1, 2}

\* the value None where the code returns it in place of a list of vertices
NoneOrder == <<-1>>

Range(s) == {s[i] : i \in 1..Len(s)}

\* a + b over floats: inf absorbs
Plus(a, b) == IF a = INF \/ b = INF THEN INF ELSE a + b

\* range(n) x range(n) in row-major order, as the nested for loops visit it
RowMajor == [k \in 1..(N * N) |-> <<(k - 1) \div N, (k - 1) % N>>]

\* [v for v in range(n) if P(v)], ascending
RECURSIVE AscFrom(_, _)
AscFrom(S, v) ==
    IF v >= N THEN <<>>
    ELSE (IF v \in S THEN <<v>> ELSE <<>>) \o AscFrom(S, v + 1)
Ascending(S) == AscFrom(S, 0)

ZeroMatrix == [i \in V |-> [j \in V |-> 0]]

\* A loop body's result is computed before the next iteration starts:
\* Evaluated(v) computes v where it stands.
Evaluated(v) == v = v

(***************************************************************************)
(* lib/cycles.py                                                           *)
(***************************************************************************)

\* Variant: the list returned as it is, whatever n.
shift_none(arr, n) == arr

\* arr[-n:] + arr[:-n]   (n = 0 gives arr: arr[-0:] is the whole list)
shift(arr, n) ==
    IF n = 0 THEN arr
    ELSE SubSeq(arr, Len(arr) - n + 1, Len(arr)) \o SubSeq(arr, 1, Len(arr) - n)

\* dfs of find_cycles: returns the list `cycles` after the call
RECURSIVE dfs(_, _, _, _, _, _)
RECURSIVE dfs_neighbors(_, _, _, _, _, _, _)
dfs(adj_matrix, node, start, visited, stack, cycles) ==
    IF node \in stack THEN
        IF node = start THEN
            IF \E i \in 0..(Len(visited) - 1) : shift(visited, i) \in Range(cycles)
            THEN cycles
            ELSE Append(cycles, visited)
        ELSE cycles
    ELSE IF node \in Range(visited) THEN cycles
    ELSE dfs_neighbors(adj_matrix, node, start, Append(visited, node),
                       stack \cup {node}, cycles, 0)

dfs_neighbors(adj_matrix, node, start, visited, stack, cycles, neighbor) ==
    IF neighbor >= N THEN cycles
    ELSE LET after == IF adj_matrix[node][neighbor] # 0
                      THEN dfs(adj_matrix, neighbor, start, visited, stack, cycles)
                      ELSE cycles
         IN  CASE Evaluated(after) ->
                dfs_neighbors(adj_matrix, node, start, visited, stack, after,
                              neighbor + 1)

RECURSIVE find_cycles_from(_, _, _)
find_cycles_from(adj_matrix, start_node, cycles) ==
    IF start_node >= N THEN cycles
    ELSE LET after == dfs(adj_matrix, start_node, start_node, <<>>, {}, cycles)
         IN  CASE Evaluated(after) ->
                find_cycles_from(adj_matrix, start_node + 1, after)

find_cycles(adj_matrix) ==
    LET cycles == find_cycles_from(adj_matrix, 0, <<>>)
    IN  [k \in 1..Len(cycles) |-> Append(cycles[k], cycles[k][1])]

\* is_in_cycle: the two nested loops at cycle idx (1-based here), position i,
\* with `skip` occurrences still to pass over.  none = TRUE is the return of
\* None; index is the 0-based idx returned.
RECURSIVE is_in_cycle_scan(_, _, _, _, _, _)
is_in_cycle_scan(S, F, cycles, idx, i, skip) ==
    IF idx > Len(cycles) THEN [none |-> TRUE, index |-> 0]
    ELSE IF i > Len(cycles[idx]) - 1
    THEN is_in_cycle_scan(S, F, cycles, idx + 1, 1, skip)
    ELSE IF cycles[idx][i] = S /\ cycles[idx][i + 1] = F
    THEN IF skip = 0
         THEN [none |-> FALSE, index |-> idx - 1]
         ELSE is_in_cycle_scan(S, F, cycles, idx, i + 1, skip - 1)
    ELSE is_in_cycle_scan(S, F, cycles, idx, i + 1, skip)

\* Variant: the first occurrence returned whatever skip is.
is_in_cycle_first(S, F, cycles, skip) ==
    is_in_cycle_scan(S, F, cycles, 1, 1, 0)

is_in_cycle(S, F, cycles, skip) ==
    is_in_cycle_scan(S, F, cycles, 1, 1, skip)

\* get_cycles_count: the same two loops, counting
RECURSIVE get_cycles_count_scan(_, _, _, _, _, _)
get_cycles_count_scan(S, F, cycles, idx, i, count) ==
    IF idx > Len(cycles) THEN count
    ELSE IF i > Len(cycles[idx]) - 1
    THEN get_cycles_count_scan(S, F, cycles, idx + 1, 1, count)
    ELSE get_cycles_count_scan(S, F, cycles, idx, i + 1,
            IF cycles[idx][i] = S /\ cycles[idx][i + 1] = F
            THEN count + 1 ELSE count)

get_cycles_count(S, F, cycles) ==
    get_cycles_count_scan(S, F, cycles, 1, 1, 0)

(***************************************************************************)
(* lib/matrices.py                                                         *)
(***************************************************************************)

\* the list `edges` of adjacency_to_incidence: (i, j, w) in row-major order
matrix_edges(adj_matrix) ==
    LET nz == SelectSeq(RowMajor, LAMBDA p : adj_matrix[p[1]][p[2]] # 0)
    IN  [k \in 1..Len(nz) |-> <<nz[k][1], nz[k][2], adj_matrix[nz[k][1]][nz[k][2]]>>]

\* rows are vertices, columns (1..m) are edges
adjacency_to_incidence(adj_matrix) ==
    LET edges == matrix_edges(adj_matrix)
    IN  [r \in V |->
          [k \in 1..Len(edges) |->
             LET i == edges[k][1]
                 j == edges[k][2]
                 w == edges[k][3]
             IN  IF i = j THEN (IF r = i THEN w ELSE 0)
                 ELSE IF r = i THEN w
                 ELSE IF r = j THEN 0 - w
                 ELSE 0]]

\* the scan of one column: the last row with a positive entry is the source,
\* the last row with a negative entry the target
column_scan(incidence_matrix, k) ==
    LET pos == {i \in V : incidence_matrix[i][k] > 0}
        neg == {i \in V : incidence_matrix[i][k] < 0}
        max(S) == CHOOSE x \in S : \A y \in S : y <= x
    IN  [has_source |-> pos # {},
         source |-> IF pos # {} THEN max(pos) ELSE 0,
         weight |-> IF pos # {} THEN incidence_matrix[max(pos)][k] ELSE 0,
         has_target |-> neg # {},
         target |-> IF neg # {} THEN max(neg) ELSE 0]

RECURSIVE incidence_columns(_, _, _)
incidence_columns(incidence_matrix, k, adj_matrix) ==
    IF k > Len(incidence_matrix[0]) THEN adj_matrix
    ELSE LET c == column_scan(incidence_matrix, k)
             target == IF c.has_target THEN c.target ELSE c.source
             after == IF c.has_source
                      THEN [adj_matrix EXCEPT ![c.source][target] = c.weight]
                      ELSE adj_matrix
         IN  CASE Evaluated(after) ->
                incidence_columns(incidence_matrix, k + 1, after)

incidence_to_adjacency(incidence_matrix) ==
    incidence_columns(incidence_matrix, 1, ZeroMatrix)

(***************************************************************************)
(* lib/topo.py                                                             *)
(***************************************************************************)

\* Variant: the inner loop run over the columns after i.
is_topo_sorted_upper(adj_matrix) ==
    \A i \in V : \A j \in (i + 1)..(N - 1) : adj_matrix[i][j] = 0

is_topo_sorted(adj_matrix) ==
    \A i \in V : \A j \in 0..(i - 1) : adj_matrix[i][j] = 0

\* the while loop of Kahn's algorithm
RECURSIVE kahn(_, _, _, _)
kahn(adj_matrix, queue, in_degree, topo_order) ==
    IF queue = <<>> THEN topo_order
    ELSE LET u == Head(queue)
             deg == [v \in V |-> IF adj_matrix[u][v] # 0
                                 THEN in_degree[v] - 1 ELSE in_degree[v]]
             freed == {v \in V : adj_matrix[u][v] # 0 /\ deg[v] = 0}
         IN  kahn(adj_matrix, Tail(queue) \o Ascending(freed), deg,
                  Append(topo_order, u))

topo_sort_order(adj_matrix) ==
    LET in_degree == [v \in V |-> Cardinality({u \in V : adj_matrix[u][v] # 0})]
        topo_order == kahn(adj_matrix, Ascending({i \in V : in_degree[i] = 0}),
                           in_degree, <<>>)
    IN  IF Len(topo_order) = N THEN topo_order ELSE NoneOrder

\* Variant: topo_order itself used as the index map
\* (sorted_matrix[topo_order[i]][topo_order[j]] = adj[i][j]).
rearrange_by_order(adj_matrix, topo_order) ==
    LET index_of(x) == CHOOSE i \in V : topo_order[i + 1] = x
    IN  [a \in V |-> [b \in V |-> adj_matrix[index_of(a)][index_of(b)]]]

\* index_map[topo_order[i]] = i; sorted_matrix[index_map[i]][index_map[j]] = adj[i][j]
rearrange_adj_matrix(adj_matrix, topo_order) ==
    [a \in V |-> [b \in V |-> adj_matrix[topo_order[a + 1]][topo_order[b + 1]]]]

\* topo_sort: subscripting None raises TypeError
topo_sort(adj_matrix) ==
    LET topo_order == topo_sort_order(adj_matrix)
    IN  IF topo_order = NoneOrder
        THEN [raised |-> TRUE, matrix |-> adj_matrix]
        ELSE [raised |-> FALSE, matrix |-> rearrange_adj_matrix(adj_matrix, topo_order)]

(***************************************************************************)
(* lib/cycles.py: the greedy reduction                                     *)
(***************************************************************************)

\* (cycle[i], cycle[i+1]) for every cycle in list order, every i in order
RECURSIVE cycle_pairs(_)
cycle_pairs(cycles) ==
    IF cycles = <<>> THEN <<>>
    ELSE LET c == Head(cycles)
         IN  [i \in 1..(Len(c) - 1) |-> <<c[i], c[i + 1]>>] \o cycle_pairs(Tail(cycles))

\* the keys of a dict in insertion order: first occurrences
RECURSIVE first_occurrences(_, _)
first_occurrences(s, seen) ==
    IF s = <<>> THEN <<>>
    ELSE IF Head(s) \in seen THEN first_occurrences(Tail(s), seen)
    ELSE <<Head(s)>> \o first_occurrences(Tail(s), seen \cup {Head(s)})

\* edge_counts as the list of (edge, count) items in insertion order
edge_counts_of(cycles) ==
    LET pairs == cycle_pairs(cycles)
        keys == first_occurrences(pairs, {})
    IN  [k \in 1..Len(keys) |->
           [edge |-> keys[k],
            count |-> Cardinality({i \in 1..Len(pairs) : pairs[i] = keys[k]})]]

\* max(edge_counts, key=edge_counts.get): the first key of largest count
max_edge(edge_counts) ==
    LET best == CHOOSE k \in 1..Len(edge_counts) :
                    /\ \A l \in 1..Len(edge_counts) :
                          edge_counts[l].count <= edge_counts[k].count
                    /\ \A l \in 1..(k - 1) :
                          edge_counts[l].count < edge_counts[k].count
    IN  edge_counts[best].edge

adjacency_sets(adj_matrix) ==
    [i \in V |-> {j \in V : adj_matrix[i][j] # 0}]

\* the inner dfs of remove_min_edges_to_acyclic over the shared path,
\* visited and cycles_found; a set of small ints iterates in ascending order
RECURSIVE inner_dfs(_, _, _)
RECURSIVE inner_dfs_neighbors(_, _, _, _)
inner_dfs(graph, node, st) ==
    IF node \in Range(st.path) THEN
        LET cycle_start == CHOOSE i \in 1..Len(st.path) : st.path[i] = node
        IN  [st EXCEPT !.cycles_found =
                Append(@, Append(SubSeq(st.path, cycle_start, Len(st.path)), node))]
    ELSE IF node \in st.visited THEN st
    ELSE LET entered == [st EXCEPT !.path = Append(@, node),
                                   !.visited = @ \cup {node}]
             left == inner_dfs_neighbors(graph, Ascending(graph[node]), 1, entered)
         IN  [left EXCEPT !.path = SubSeq(@, 1, Len(@) - 1)]

inner_dfs_neighbors(graph, neighbors, k, st) ==
    IF k > Len(neighbors) THEN st
    ELSE LET after == inner_dfs(graph, neighbors[k], st)
         IN  CASE Evaluated(after) ->
                inner_dfs_neighbors(graph, neighbors, k + 1, after)

RECURSIVE inner_find_cycles_from(_, _, _)
inner_find_cycles_from(graph, v, st) ==
    IF v >= N THEN st.cycles_found
    ELSE LET after == inner_dfs(graph, v, st)
         IN  CASE Evaluated(after) -> inner_find_cycles_from(graph, v + 1, after)

inner_find_cycles(graph) ==
    inner_find_cycles_from(graph, 0, [path |-> <<>>, visited |-> {}, cycles_found |-> <<>>])

\* while find_cycles(): remove the edge of largest count.  max() of an empty
\* dict raises ValueError.
RECURSIVE removal_loop(_, _, _)
removal_loop(graph, edge_counts, removed_edges) ==
    IF inner_find_cycles(graph) = <<>>
    THEN [raised |-> FALSE, removed_edges |-> removed_edges]
    ELSE IF edge_counts = <<>>
    THEN [raised |-> TRUE, removed_edges |-> removed_edges]
    ELSE LET edge_to_remove == max_edge(edge_counts)
         IN  removal_loop(
                [graph EXCEPT ![edge_to_remove[1]] = @ \ {edge_to_remove[2]}],
                SelectSeq(edge_counts, LAMBDA it : it.edge # edge_to_remove),
                removed_edges \cup {edge_to_remove})

remove_min_edges_to_acyclic(adj_matrix, cycles) ==
    removal_loop(adjacency_sets(adj_matrix), edge_counts_of(cycles), {})

remove_edges_from_matrix(adj_matrix, removed_edges) ==
    [v \in V |-> [u \in V |-> IF <<v, u>> \in removed_edges THEN 0 ELSE adj_matrix[v][u]]]

\* convert_to_acyclic(adj_matrix): one positional parameter
convert_to_acyclic(adj_matrix) ==
    LET cycles == find_cycles(adj_matrix)
        r == remove_min_edges_to_acyclic(adj_matrix, cycles)
    IN  [raised |-> r.raised,
         matrix |-> remove_edges_from_matrix(adj_matrix, r.removed_edges)]

\* a call of convert_to_acyclic with the positional arguments `args`: Python
\* raises TypeError unless exactly one argument is passed
convert_to_acyclic_call(args) ==
    IF Len(args) # 1
    THEN [raised |-> TRUE, matrix |-> ZeroMatrix]
    ELSE convert_to_acyclic(args[1])

(***************************************************************************)
(* lib/methods: the shortest-path routines.  A result is the pair          *)
(* (dp, paths): dp[v] a distance, paths[v] the list of paths kept for v.   *)
(***************************************************************************)

\* dp = [INF] * n; dp[source] = 0; paths = [[] ...]; paths[source] = [[source]]
initial_dp(source) == [v \in V |-> IF v = source THEN 0 ELSE INF]
initial_paths(source) == [v \in V |-> IF v = source THEN <<<<source>>>> ELSE <<>>]

\* Variant: the predecessor's paths copied without the new vertex.
copy_paths(paths_u, v) == paths_u

\* [path + [v] for path in paths_u]
extend_paths(paths_u, v) == [k \in 1..Len(paths_u) |-> Append(paths_u[k], v)]

\* the in-place rewrite at the head of dijkstra and floyd_warshall:
\* adj_matrix[i][j] = INF wherever i != j and adj_matrix[i][j] == 0
zeros_to_inf(adj_matrix) ==
    [i \in V |-> [j \in V |->
        IF i # j /\ adj_matrix[i][j] = 0 THEN INF ELSE adj_matrix[i][j]]]

\* dp.py: the body of the two nested loops at (u, v) = RowMajor[k]
RECURSIVE dp_loop(_, _, _)
dp_loop(adj_matrix, k, st) ==
    IF k > N * N THEN st
    ELSE LET u == RowMajor[k][1]
             v == RowMajor[k][2]
             new_dist == Plus(st.dp[u], adj_matrix[u][v])
             after ==
                IF st.dp[u] = INF \/ adj_matrix[u][v] = 0 THEN st
                ELSE IF new_dist < st.dp[v]
                THEN [dp |-> [st.dp EXCEPT ![v] = new_dist],
                      paths |-> [st.paths EXCEPT ![v] = extend_paths(st.paths[u], v)]]
                ELSE IF new_dist = st.dp[v]
                THEN [dp |-> st.dp,
                      paths |-> [st.paths EXCEPT ![v] = @ \o extend_paths(st.paths[u], v)]]
                ELSE st
         IN  CASE Evaluated(after) -> dp_loop(adj_matrix, k + 1, after)

shortest_paths_dp(adj_matrix, source) ==
    dp_loop(adj_matrix, 1, [dp |-> initial_dp(source), paths |-> initial_paths(source)])

\* heapq.heappop on (distance, vertex) tuples: the least tuple
heap_min(heap) ==
    CHOOSE e \in heap : \A f \in heap :
        e[1] < f[1] \/ (e[1] = f[1] /\ e[2] <= f[2])

\* dijkstra.py: for v in range(n) of one popped vertex u
RECURSIVE dijkstra_relax(_, _, _, _)
dijkstra_relax(adj_matrix, u, v, st) ==
    IF v >= N THEN st
    ELSE LET new_dist == Plus(st.dp[u], adj_matrix[u][v])
             after ==
                IF adj_matrix[u][v] = 0 THEN st
                ELSE IF new_dist < st.dp[v]
                THEN [dp |-> [st.dp EXCEPT ![v] = new_dist],
                      paths |-> [st.paths EXCEPT ![v] = extend_paths(st.paths[u], v)],
                      heap |-> st.heap \cup {<<new_dist, v>>}]
                ELSE IF new_dist = st.dp[v] /\ st.dp[v] # INF
                THEN [st EXCEPT !.paths[v] = @ \o extend_paths(st.paths[u], v)]
                ELSE st
         IN  CASE Evaluated(after) -> dijkstra_relax(adj_matrix, u, v + 1, after)

\* while min_heap: ...   `pops` counts the pops left to follow; the loop of a
\* run that exhausts them is still running (returned = FALSE)
RECURSIVE dijkstra_loop(_, _, _)
dijkstra_loop(adj_matrix, st, pops) ==
    IF st.heap = {} THEN [returned |-> TRUE, dp |-> st.dp, paths |-> st.paths]
    ELSE IF pops = 0 THEN [returned |-> FALSE, dp |-> st.dp, paths |-> st.paths]
    ELSE LET top == heap_min(st.heap)
             curr_dist == top[1]
             u == top[2]
             popped == [st EXCEPT !.heap = @ \ {top}]
             after == IF curr_dist > st.dp[u] THEN popped
                      ELSE dijkstra_relax(adj_matrix, u, 0, popped)
         IN  CASE Evaluated(after) -> dijkstra_loop(adj_matrix, after, pops - 1)

\* dijkstra(adj_matrix, source): `matrix` is the caller's list after the call
dijkstra(adj_matrix, source) ==
    LET rewritten == zeros_to_inf(adj_matrix)
        r == dijkstra_loop(rewritten,
                [dp |-> initial_dp(source), paths |-> initial_paths(source),
                 heap |-> {<<0, source>>}],
                MaxPops)
    IN  [returned |-> r.returned, dp |-> r.dp, paths |-> r.paths, matrix |-> rewritten]

\* Variant: the inner loop of the edge scan started at i + 1.
bf_edges_upper(adj_matrix) ==
    SelectSeq(matrix_edges(adj_matrix), LAMBDA e : e[1] < e[2])

\* bellman_ford.py: the edge list, self-loops left out
bf_edges(adj_matrix) ==
    SelectSeq(matrix_edges(adj_matrix), LAMBDA e : e[1] # e[2])

\* one pass over the edge list
RECURSIVE bf_pass(_, _, _)
bf_pass(edges, k, st) ==
    IF k > Len(edges) THEN st
    ELSE LET u == edges[k][1]
             v == edges[k][2]
             w == edges[k][3]
             after ==
                IF st.dp[u] # INF /\ Plus(st.dp[u], w) < st.dp[v]
                THEN [dp |-> [st.dp EXCEPT ![v] = Plus(st.dp[u], w)],
                      paths |-> [st.paths EXCEPT ![v] = extend_paths(st.paths[u], v)],
                      updated |-> TRUE]
                ELSE st
         IN  CASE Evaluated(after) -> bf_pass(edges, k + 1, after)

\* for _ in range(n - 1): ... if not updated: break
RECURSIVE bf_rounds(_, _, _)
bf_rounds(edges, round, st) ==
    IF round >= N - 1 THEN st
    ELSE LET after == bf_pass(edges, 1, [st EXCEPT !.updated = FALSE])
         IN  IF after.updated THEN bf_rounds(edges, round + 1, after) ELSE after

\* bellman_ford(adj_matrix, source): negative = TRUE is the return of (None, None)
bellman_ford(adj_matrix, source) ==
    LET edges == bf_edges(adj_matrix)
        st == bf_rounds(edges, 0,
                [dp |-> initial_dp(source), paths |-> initial_paths(source),
                 updated |-> FALSE])
        negative == \E k \in 1..Len(edges) :
                        /\ st.dp[edges[k][1]] # INF
                        /\ Plus(st.dp[edges[k][1]], edges[k][3]) < st.dp[edges[k][2]]
    IN  [negative |-> negative, dp |-> st.dp, paths |-> st.paths]

\* floyd_warshall.py: the triple loop at step t = (k, i, j)
RECURSIVE fw_loop(_, _)
fw_loop(t, st) ==
    IF t >= N * N * N THEN st
    ELSE LET k == t \div (N * N)
             i == (t \div N) % N
             j == t % N
             new_dist == Plus(st.dp[i][k], st.dp[k][j])
             via == st.paths[k][j]
             after ==
                IF st.dp[i][k] # INF /\ st.dp[k][j] # INF /\ new_dist < st.dp[i][j]
                THEN [dp |-> [st.dp EXCEPT ![i][j] = new_dist],
                      paths |-> [st.paths EXCEPT ![i][j] =
                                    st.paths[i][k] \o
                                    (IF via = <<>> THEN <<>> ELSE Tail(via))]]
                ELSE st
         IN  CASE Evaluated(after) -> fw_loop(t + 1, after)

\* floyd_warshall(adj_matrix): `matrix` is the caller's list after the call
floyd_warshall(adj_matrix) ==
    LET rewritten == zeros_to_inf(adj_matrix)
        paths0 == [i \in V |-> [j \in V |->
                     IF rewritten[i][j] # INF /\ i # j THEN <<i, j>>
                     ELSE IF i = j THEN <<i>>
                     ELSE <<>>]]
        r == fw_loop(0, [dp |-> rewritten, paths |-> paths0])
    IN  [dp |-> r.dp, paths |-> r.paths, matrix |-> rewritten]

(***************************************************************************)
(* lib/DiGraph.py: one DiGraph instance held by a caller, and the last     *)
(* call made on it.                                                        *)
(***************************************************************************)
VARIABLES
    adj_matrix,               \* self.adj_matrix (the list object the graph holds)
    cycles,                   \* self.cycles
    incidence_matrix,         \* self.incidence_matrix
    is_topologically_sorted,  \* self.is_topologically_sorted
    op,                       \* the last call
    arg,                      \* its arguments: the matrix as it was passed, the source
    ret,                      \* how it ended
    out                       \* what it returned or raised

vars == <<adj_matrix, cycles, incidence_matrix, is_topologically_sorted,
          op, arg, ret, out>>

\* how a call ends
Returned == {"self", "graph", "result", "none", "matrix"}
NoSource == 0 - 1

\* DiGraph.__init__(adj): the fields of the instance
DiGraph(m) ==
    /\ adj_matrix' = m
    /\ cycles' = find_cycles(m)
    /\ incidence_matrix' = adjacency_to_incidence(m)
    /\ is_topologically_sorted' = is_topo_sorted(m)

SameGraph ==
    UNCHANGED <<adj_matrix, cycles, incidence_matrix, is_topologically_sorted>>

Called(name, source) ==
    /\ ret # "running"
    /\ op' = name
    /\ arg' = [matrix |-> adj_matrix, source |-> source]

\* the matrices a caller constructs a DiGraph from: at most MaxEdges edges,
\* weights from Weights
InputMatrices ==
    {[i \in V |-> [j \in V |-> IF <<i, j>> \in DOMAIN w THEN w[<<i, j>>] ELSE 0]] :
        w \in UNION {[E -> Weights] :
                        E \in {E \in SUBSET (V \X V) : Cardinality(E) <= MaxEdges}}}

Init ==
    /\ adj_matrix \in InputMatrices
    /\ cycles = find_cycles(adj_matrix)
    /\ incidence_matrix = adjacency_to_incidence(adj_matrix)
    /\ is_topologically_sorted = is_topo_sorted(adj_matrix)
    /\ op = "init"
    /\ arg = [matrix |-> adj_matrix, source |-> NoSource]
    /\ ret = "graph"
    /\ out = <<>>

\* DiGraph.from_incidence(g.incidence_matrix): the caller keeps the new graph
FromIncidence ==
    /\ Called("from_incidence", NoSource)
    /\ DiGraph(incidence_to_adjacency(incidence_matrix))
    /\ ret' = "graph"
    /\ out' = <<>>

\* g.make_acyclic(): the caller keeps the graph returned
MakeAcyclic ==
    /\ Called("make_acyclic", NoSource)
    /\ IF Len(cycles) = 0
       THEN /\ SameGraph
            /\ ret' = "self"
            /\ out' = <<>>
       ELSE LET r == convert_to_acyclic_call(<<adj_matrix, cycles>>)
            IN  IF r.raised
                THEN /\ SameGraph
                     /\ ret' = "raise"
                     /\ out' = "TypeError"
                ELSE /\ DiGraph(r.matrix)
                     /\ ret' = "graph"
                     /\ out' = <<>>

\* g.topological_sort(): the caller keeps the graph returned
TopologicalSort ==
    /\ Called("topological_sort", NoSource)
    /\ IF Len(cycles) > 0
       THEN /\ SameGraph
            /\ ret' = "raise"
            /\ out' = "Graph is not acyclic"
       ELSE IF is_topologically_sorted
       THEN /\ SameGraph
            /\ ret' = "self"
            /\ out' = <<>>
       ELSE LET r == topo_sort(adj_matrix)
            IN  IF r.raised
                THEN /\ SameGraph
                     /\ ret' = "raise"
                     /\ out' = "TypeError"
                ELSE /\ DiGraph(r.matrix)
                     /\ ret' = "graph"
                     /\ out' = <<>>

\* g.shortest_path_dp(source)
ShortestPathDp ==
    \E source \in V :
        /\ Called("shortest_path_dp", source)
        /\ SameGraph
        /\ IF ~is_topologically_sorted
           THEN /\ ret' = "raise"
                /\ out' = "Graph is not topologically sorted"
           ELSE LET r == shortest_paths_dp(adj_matrix, source)
                IN  /\ ret' = "result"
                    /\ out' = [dp |-> r.dp, paths |-> r.paths]

\* g.shortest_path_dijkstra(source): dijkstra writes into self.adj_matrix
ShortestPathDijkstra ==
    \E source \in V : \E r \in {dijkstra(adj_matrix, source)} :
            /\ Called("shortest_path_dijkstra", source)
            /\ adj_matrix' = r.matrix
            /\ UNCHANGED <<cycles, incidence_matrix, is_topologically_sorted>>
            /\ ret' = IF r.returned THEN "result" ELSE "running"
            /\ out' = IF r.returned THEN [dp |-> r.dp, paths |-> r.paths] ELSE <<>>

\* g.shortest_path_floyd_warshall(): floyd_warshall writes into self.adj_matrix
ShortestPathFloydWarshall ==
    \E r \in {floyd_warshall(adj_matrix)} :
        /\ Called("shortest_path_floyd_warshall", NoSource)
        /\ adj_matrix' = r.matrix
        /\ UNCHANGED <<cycles, incidence_matrix, is_topologically_sorted>>
        /\ ret' = "result"
        /\ out' = [dp |-> r.dp, paths |-> r.paths]

\* bellman_ford(g.adj_matrix, source)
BellmanFord ==
    \E source \in V : \E r \in {bellman_ford(adj_matrix, source)} :
            /\ Called("bellman_ford", source)
            /\ SameGraph
            /\ ret' = IF r.negative THEN "none" ELSE "result"
            /\ out' = IF r.negative THEN <<>> ELSE [dp |-> r.dp, paths |-> r.paths]

\* convert_to_acyclic(g.adj_matrix), the library function called as declared
ConvertToAcyclic ==
    LET r == convert_to_acyclic_call(<<adj_matrix>>)
    IN  /\ Called("convert_to_acyclic", NoSource)
        /\ SameGraph
        /\ ret' = IF r.raised THEN "raise" ELSE "matrix"
        /\ out' = IF r.raised THEN "ValueError" ELSE r.matrix

Next ==
    \/ FromIncidence
    \/ MakeAcyclic
    \/ TopologicalSort
    \/ ShortestPathDp
    \/ ShortestPathDijkstra
    \/ ShortestPathFloydWarshall
    \/ BellmanFord
    \/ ConvertToAcyclic

Spec == Init /\ [][Next]_vars

(***************************************************************************)
(* The two queries of lib/cycles.py on the cycle list of a graph, as the   *)
(* drawing code makes them: is_in_cycle(S, F, g.cycles, skip) and          *)
(* get_cycles_count(S, F, g.cycles).                                       *)
(***************************************************************************)
\* the graphs queried: at most MaxCycleEdges edges, all of weight 1
CycleGraphs ==
    {[i \in V |-> [j \in V |-> IF <<i, j>> \in E THEN 1 ELSE 0]] :
        E \in {E \in SUBSET (V \X V) : Cardinality(E) <= MaxCycleEdges}}

InitCycles ==
    /\ adj_matrix \in CycleGraphs
    /\ cycles = find_cycles(adj_matrix)
    /\ incidence_matrix = adjacency_to_incidence(adj_matrix)
    /\ is_topologically_sorted = is_topo_sorted(adj_matrix)
    /\ op = "init"
    /\ arg = [S |-> 0, F |-> 0, skip |-> 0, cycles |-> cycles]
    /\ ret = "graph"
    /\ out = <<>>

\* is_in_cycle(S, F, g.cycles, skip)
IsInCycle ==
    \E S \in V : \E F \in V : \E skip \in 0..MaxSkip :
        LET r == is_in_cycle(S, F, cycles, skip)
        IN  /\ op' = "is_in_cycle"
            /\ arg' = [S |-> S, F |-> F, skip |-> skip, cycles |-> cycles]
            /\ SameGraph
            /\ ret' = IF r.none THEN "none" ELSE "result"
            /\ out' = IF r.none THEN <<>> ELSE r.index

\* get_cycles_count(S, F, g.cycles)
GetCyclesCount ==
    \E S \in V : \E F \in V :
        /\ op' = "get_cycles_count"
        /\ arg' = [S |-> S, F |-> F, skip |-> 0, cycles |-> cycles]
        /\ SameGraph
        /\ ret' = "result"
        /\ out' = get_cycles_count(S, F, cycles)

NextCycles ==
    \/ IsInCycle
    \/ GetCyclesCount

SpecCycles == InitCycles /\ [][NextCycles]_vars

(***************************************************************************)
(* Graph-theoretic vocabulary of the properties.  An edge is a nonzero     *)
(* entry that is a weight; an INF entry stands for a missing edge.         *)
(***************************************************************************)
IsEdge(m, i, j) == m[i][j] # 0 /\ m[i][j] # INF

Acyclic(m) == find_cycles(m) = <<>>

\* no negative entry: every edge weight is positive (0 is no edge)
NonNegative(m) == \A i \in V : \A j \in V : m[i][j] >= 0

\* the paths from s that repeat no vertex
SimplePaths(m, s) ==
    {p \in UNION {[1..k -> V] : k \in 1..N} :
        /\ p[1] = s
        /\ \A i \in 1..Len(p) : \A j \in 1..Len(p) : p[i] = p[j] => i = j
        /\ \A i \in 1..(Len(p) - 1) : IsEdge(m, p[i], p[i + 1])}

RECURSIVE PathWeight(_, _)
PathWeight(m, p) ==
    IF Len(p) <= 1 THEN 0
    ELSE m[p[1]][p[2]] + PathWeight(m, Tail(p))

PathsTo(m, s, v) == {p \in SimplePaths(m, s) : p[Len(p)] = v}

Reachable(m, s, v) == PathsTo(m, s, v) # {}

MinWeight(m, s, v) ==
    LET W == {PathWeight(m, p) : p \in PathsTo(m, s, v)}
    IN  IF W = {} THEN INF ELSE CHOOSE w \in W : \A x \in W : w <= x

ShortestPathsTo(m, s, v) ==
    {p \in PathsTo(m, s, v) : PathWeight(m, p) = MinWeight(m, s, v)}

SingleSourceCalls == {"shortest_path_dp", "shortest_path_dijkstra", "bellman_ford"}

(***************************************************************************)
(* C1.  For a graph G with at least one cycle, make_acyclic(G) returns a   *)
(* graph whose adjacency matrix has no cycles (find_cycles of it is        *)
(* empty), and no error is raised on the way.                              *)
(***************************************************************************)
C1_MakeAcyclicReturnsAcyclic ==
    (op = "make_acyclic" /\ ~Acyclic(arg.matrix))
        => (ret = "graph" /\ Acyclic(adj_matrix))

(***************************************************************************)
(* C3.  Round trip: incidence_to_adjacency(adjacency_to_incidence(m))      *)
(* equals m entry for entry, for every matrix m a graph holds (weights of  *)
(* either sign, self-loops included).                                      *)
(***************************************************************************)
C3_RoundTrip ==
    incidence_to_adjacency(adjacency_to_incidence(adj_matrix)) = adj_matrix

(***************************************************************************)
(* C4.  After any sequence of facade calls the stored cycles,              *)
(* incidence_matrix and is_topologically_sorted are the values that        *)
(* find_cycles, adjacency_to_incidence and is_topo_sorted give for the     *)
(* instance's current adj_matrix.                                          *)
(***************************************************************************)
C4_DerivedFieldsConsistent ==
    /\ cycles = find_cycles(adj_matrix)
    /\ incidence_matrix = adjacency_to_incidence(adj_matrix)
    /\ is_topologically_sorted = is_topo_sorted(adj_matrix)

(***************************************************************************)
(* C5.  Dijkstra and Floyd-Warshall leave the matrix passed to them        *)
(* unchanged: after the call every entry of the graph's adj_matrix has the *)
(* value it had before the call.                                           *)
(***************************************************************************)
C5_MatrixUnchanged ==
    (op \in {"shortest_path_dijkstra", "shortest_path_floyd_warshall"} /\ ret = "result")
        => adj_matrix = arg.matrix

(***************************************************************************)
(* C2.  On an acyclic matrix with non-negative weights, for every source   *)
(* s, Dijkstra, Bellman-Ford and row s of Floyd-Warshall return the same   *)
(* distance for every vertex (so the same vertices are reachable), and     *)
(* DAG-DP returns those distances too when the matrix is topologically     *)
(* sorted.  Stated of the matrix of every call, and of what the call       *)
(* returned.                                                               *)
(***************************************************************************)
AgreeOn(m, s) ==
    LET dj == dijkstra(m, s)
        bf == bellman_ford(m, s)
        fw == floyd_warshall(m)
    IN  /\ dj.returned
        /\ ~bf.negative
        /\ bf.dp = dj.dp
        /\ fw.dp[s] = dj.dp
        /\ is_topo_sorted(m) => shortest_paths_dp(m, s).dp = dj.dp

C2_CrossAlgorithmAgreement ==
    (Acyclic(arg.matrix) /\ NonNegative(arg.matrix)) =>
        /\ \A s \in V : AgreeOn(arg.matrix, s)
        /\ (op \in SingleSourceCalls /\ ret = "result")
              => out.dp = bellman_ford(arg.matrix, arg.source).dp
        /\ op = "shortest_path_floyd_warshall"
              => \A s \in V : out.dp[s] = bellman_ford(arg.matrix, s).dp

\* a DAG-DP call on a sorted DAG with two routes to one vertex, whose
\* distances are those the other three routines give
C2_Witness ==
    /\ op = "shortest_path_dp"
    /\ ret = "result"
    /\ Acyclic(arg.matrix) /\ NonNegative(arg.matrix)
    /\ Cardinality(PathsTo(arg.matrix, arg.source, N - 1)) >= 2
    /\ out.dp[N - 1] = 2
    /\ AgreeOn(arg.matrix, arg.source)

(***************************************************************************)
(* C6.  Dijkstra on a matrix with positive edge weights, and DAG-DP on an  *)
(* acyclic topologically sorted matrix, return distances[v] = the least    *)
(* weight of a path from the source to v, and paths[v] = exactly the       *)
(* source-to-v paths of that weight, each once.  Scenario A: the edges     *)
(* 0->1 of weight 4 and 1->2 of weight 3 give, from source 0, the          *)
(* distances 0, 4, 7 and paths[2] = [[0, 1, 2]].                           *)
(***************************************************************************)
ExactShortestPaths(m, s, r) ==
    \A v \in V :
        /\ r.dp[v] = MinWeight(m, s, v)
        /\ Range(r.paths[v]) = ShortestPathsTo(m, s, v)
        /\ Len(r.paths[v]) = Cardinality(ShortestPathsTo(m, s, v))

ScenarioA ==
    [i \in V |-> [j \in V |->
        IF i = 0 /\ j = 1 THEN 4 ELSE IF i = 1 /\ j = 2 THEN 3 ELSE 0]]

ScenarioAResult(r) ==
    /\ r.dp[0] = 0 /\ r.dp[1] = 4 /\ r.dp[2] = 7
    /\ r.paths[2] = <<<<0, 1, 2>>>>

C6_ExactShortestPaths ==
    /\ (op = "shortest_path_dijkstra" /\ NonNegative(arg.matrix))
          => (ret = "result" /\ ExactShortestPaths(arg.matrix, arg.source, out))
    /\ (op = "shortest_path_dp" /\ Acyclic(arg.matrix) /\ is_topo_sorted(arg.matrix))
          => (ret = "result" /\ ExactShortestPaths(arg.matrix, arg.source, out))
    /\ ScenarioAResult(dijkstra(ScenarioA, 0))
    /\ ScenarioAResult(shortest_paths_dp(ScenarioA, 0))

\* a Dijkstra call on positive weights that returned two tied shortest paths
C6_Witness ==
    /\ op = "shortest_path_dijkstra"
    /\ ret = "result"
    /\ NonNegative(arg.matrix)
    /\ \E v \in V : Len(out.paths[v]) = 2 /\ out.dp[v] = 2

(***************************************************************************)
(* C7.  In the result of a single-source query (DAG-DP, Dijkstra,          *)
(* Bellman-Ford) a vertex that no path joins to the source has the         *)
(* infinite distance and an empty list of paths, also when other           *)
(* shortest-path queries were made on the graph before.                    *)
(***************************************************************************)
C7_UnreachableIsInfEmpty ==
    (op \in SingleSourceCalls /\ ret = "result") =>
        \A v \in V :
            ~Reachable(arg.matrix, arg.source, v)
                => (out.dp[v] = INF /\ out.paths[v] = <<>>)

(***************************************************************************)
(* C8.  Topological consistency: for every acyclic matrix adj,             *)
(* topo_sort_order(adj) is a permutation of the vertices and               *)
(* rearrange_adj_matrix(adj, topo_sort_order(adj)) is topologically        *)
(* sorted; a topological_sort call that returns a new graph returns that   *)
(* matrix.                                                                 *)
(***************************************************************************)
IsPermutation(order) ==
    /\ Len(order) = N
    /\ Range(order) = V

C8_TopologicalConsistency ==
    /\ Acyclic(arg.matrix) =>
          /\ IsPermutation(topo_sort_order(arg.matrix))
          /\ is_topo_sorted(rearrange_adj_matrix(arg.matrix, topo_sort_order(arg.matrix)))
    /\ (op = "topological_sort" /\ ret = "graph") =>
          /\ adj_matrix = rearrange_adj_matrix(arg.matrix, topo_sort_order(arg.matrix))
          /\ is_topo_sorted(adj_matrix)
          /\ is_topologically_sorted

\* a topological_sort call that relabelled an unsorted DAG of three edges
C8_Witness ==
    /\ op = "topological_sort"
    /\ ret = "graph"
    /\ ~is_topo_sorted(arg.matrix)
    /\ Len(matrix_edges(arg.matrix)) = 3
    /\ is_topo_sorted(adj_matrix)

(***************************************************************************)
(* C9.  topological_sort raises "Graph is not acyclic" exactly when the    *)
(* graph has a cycle (its stored cycle list is not empty), leaving the     *)
(* graph as it was; with an empty cycle list it returns a graph and never  *)
(* fails (Kahn's order is never None).                                     *)
(***************************************************************************)
C9_TopologicalSortFailsOnlyOnCycles ==
    op = "topological_sort" =>
        /\ ret = "raise" =>
              /\ out = "Graph is not acyclic"
              /\ Len(cycles) > 0
              /\ adj_matrix = arg.matrix
        /\ ret # "raise" =>
              /\ ret \in {"self", "graph"}
              /\ Len(cycles) = 0

(***************************************************************************)
(* C10.  Bellman-Ford returns no distances (None, None) exactly when a     *)
(* cycle of negative total weight, a negative self-loop included, can be   *)
(* reached from the source; otherwise it returns distances.                *)
(***************************************************************************)
CycleWeight(m, c) == PathWeight(m, c)

NegativeCycleReachable(m, s) ==
    LET cs == find_cycles([i \in V |-> [j \in V |-> IF IsEdge(m, i, j) THEN m[i][j] ELSE 0]])
    IN  \E k \in 1..Len(cs) :
            /\ CycleWeight(m, cs[k]) < 0
            /\ Reachable(m, s, cs[k][1])

C10_NegativeCycleDetected ==
    op = "bellman_ford" =>
        (ret = "none" <=> NegativeCycleReachable(arg.matrix, arg.source))

(***************************************************************************)
(* C11.  find_cycles returns exactly one closed representative (first      *)
(* vertex repeated as last) of every rotation class of simple cycles of    *)
(* the matrix, self-loops [v, v] included, and nothing else: every listed  *)
(* cycle follows nonzero entries and repeats no vertex but its start, no   *)
(* two listed cycles are rotations of each other, and every simple cycle   *)
(* has a rotation listed.  The cycle 0->1->2->0 gives [[0, 1, 2, 0]] only; *)
(* a lone self-loop at v gives [[v, v]] only.                              *)
(***************************************************************************)
\* the closed simple cycles of m: c[1] = c[Len], the vertices before the
\* last all different, every step a nonzero entry
SimpleCycles(m) ==
    {c \in UNION {[1..k -> V] : k \in 2..(N + 1)} :
        /\ c[1] = c[Len(c)]
        /\ \A i \in 1..(Len(c) - 1) : \A j \in 1..(Len(c) - 1) : c[i] = c[j] => i = j
        /\ \A i \in 1..(Len(c) - 1) : m[c[i]][c[i + 1]] # 0}

\* c and d are the same cycle started at different vertices
Rotations(c, d) ==
    /\ Len(c) = Len(d)
    /\ \E r \in 0..(Len(c) - 2) :
          \A i \in 1..(Len(c) - 1) : d[i] = c[((i - 1 + r) % (Len(c) - 1)) + 1]

OnePerRotationClass(m, found) ==
    /\ \A k \in 1..Len(found) : found[k] \in SimpleCycles(m)
    /\ \A k \in 1..Len(found) : \A l \in 1..Len(found) :
          Rotations(found[k], found[l]) => k = l
    /\ \A c \in SimpleCycles(m) : \E k \in 1..Len(found) : Rotations(c, found[k])

ScenarioB ==
    [i \in V |-> [j \in V |->
        IF <<i, j>> \in {<<0, 1>>, <<1, 2>>, <<2, 0>>} THEN 1 ELSE 0]]

LoneSelfLoop(v) ==
    [i \in V |-> [j \in V |-> IF i = v /\ j = v THEN 1 ELSE 0]]

C11_FindCyclesOnePerClass ==
    /\ OnePerRotationClass(adj_matrix, find_cycles(adj_matrix))
    /\ ret = "graph" => OnePerRotationClass(adj_matrix, cycles)
    /\ find_cycles(ScenarioB) = <<<<0, 1, 2, 0>>>>
    /\ \A v \in V : find_cycles(LoneSelfLoop(v)) = <<<<v, v>>>>

\* a graph built on a cycle through three vertices that the search meets
\* from each of them, and holds once
C11_Witness ==
    /\ ret = "graph"
    /\ \E c \in SimpleCycles(adj_matrix) : Len(c) = 4
    /\ Len(cycles) = 1
    /\ Len(cycles[1]) = 4

(***************************************************************************)
(* C12.  A DAG-DP query on a graph raises "Graph is not topologically      *)
(* sorted", returning no distances, whenever the graph's adjacency matrix  *)
(* is not topologically sorted (some nonzero entry (i, j) with j < i), and *)
(* returns distances when it is sorted.                                    *)
(***************************************************************************)
NotSorted(m) == \E i \in V : \E j \in V : j < i /\ m[i][j] # 0

C12_DpFailsExactlyWhenNotSorted ==
    op = "shortest_path_dp" =>
        /\ NotSorted(arg.matrix) =>
              (ret = "raise" /\ out = "Graph is not topologically sorted")
        /\ ~NotSorted(arg.matrix) => ret = "result"

(***************************************************************************)
(* C13.  Dijkstra and Floyd-Warshall fail with NegativeWeight, returning   *)
(* no distances, whenever the adjacency matrix they are given contains a   *)
(* negative weight.  Stated of the calls that end.                         *)
(***************************************************************************)
C13_NegativeWeightRejected ==
    (op \in {"shortest_path_dijkstra", "shortest_path_floyd_warshall"}
        /\ ~NonNegative(arg.matrix) /\ ret # "running")
        => (ret = "raise" /\ out = "NegativeWeight")

(***************************************************************************)
(* C14.  incidence_to_adjacency fails with MalformedIncidenceColumn        *)
(* whenever some column of the incidence matrix it is given has no         *)
(* positive entry: a from_incidence call on such a matrix raises, it       *)
(* never returns a graph built without that column.                        *)
(***************************************************************************)
MalformedColumn(inc) ==
    \E k \in 1..Len(inc[0]) : \A i \in V : inc[i][k] <= 0

C14_MalformedColumnRejected ==
    [][(op' = "from_incidence" /\ MalformedColumn(incidence_matrix))
          => (ret' = "raise" /\ out' = "MalformedIncidenceColumn")]_vars

(***************************************************************************)
(* C15.  For an acyclic graph whose matrix is already topologically        *)
(* sorted, topological_sort returns the same graph, its adjacency matrix   *)
(* unchanged.  Hence topological_sort is idempotent: a topological_sort    *)
(* made on the graph that a topological_sort returned returns that graph,  *)
(* matrix unchanged.                                                       *)
(***************************************************************************)
SortedInputReturnedAsIs ==
    (op = "topological_sort" /\ Acyclic(arg.matrix) /\ ~NotSorted(arg.matrix))
        => (ret = "self" /\ adj_matrix = arg.matrix)

SortOfSortReturnsSame ==
    (op = "topological_sort" /\ ret \in {"self", "graph"} /\ op' = "topological_sort")
        => (ret' = "self" /\ adj_matrix' = adj_matrix)

C15_TopologicalSortIdempotent ==
    []SortedInputReturnedAsIs /\ [][SortOfSortReturnsSame]_vars

\* a topological_sort of a sorted acyclic graph with two edges or more that
\* gave the graph back
C15_Witness ==
    /\ op = "topological_sort"
    /\ ret = "self"
    /\ Acyclic(arg.matrix) /\ ~NotSorted(arg.matrix)
    /\ Len(matrix_edges(arg.matrix)) >= 2
    /\ adj_matrix = arg.matrix

(***************************************************************************)
(* C16.  make_acyclic / remove_min_edges_to_acyclic removes the minimum    *)
(* number of edges that breaks all cycles: for every graph, no set of      *)
(* edges smaller than the set removed makes the graph acyclic.             *)
(***************************************************************************)
EdgesOf(m) == {e \in V \X V : m[e[1]][e[2]] # 0}

\* the edges of `before` that `after` no longer has
RemovedEdges(before, after) == {e \in EdgesOf(before) : after[e[1]][e[2]] = 0}

BreaksAllCycles(m, S) == Acyclic(remove_edges_from_matrix(m, S))

MinimumRemoval(before, after) ==
    \A S \in SUBSET EdgesOf(before) :
        BreaksAllCycles(before, S)
            => Cardinality(S) >= Cardinality(RemovedEdges(before, after))

C16_RemovalIsMinimum ==
    /\ (op = "convert_to_acyclic" /\ ret = "matrix")
          => MinimumRemoval(arg.matrix, out)
    /\ (op = "make_acyclic" /\ ret \in {"self", "graph"})
          => MinimumRemoval(arg.matrix, adj_matrix)

(***************************************************************************)
(* C17.  For every edge (S, F), cycle list and skip >= 0:                  *)
(* is_in_cycle(S, F, cycles, skip) returns the index of the cycle holding  *)
(* the skip-th occurrence (0-based, in list order) of the consecutive pair *)
(* (S, F), and returns none exactly when                                   *)
(* skip >= get_cycles_count(S, F, cycles); get_cycles_count is the number  *)
(* of such occurrences over all cycles.                                    *)
(***************************************************************************)
\* the places <<k, i>> where cycle k has S at i and F at i + 1
Occurrences(S, F, cs) ==
    {p \in UNION {{<<k, i>> : i \in 1..(Len(cs[k]) - 1)} : k \in 1..Len(cs)} :
        cs[p[1]][p[2]] = S /\ cs[p[1]][p[2] + 1] = F}

Before(p, q) == p[1] < q[1] \/ (p[1] = q[1] /\ p[2] < q[2])

\* the occurrence with exactly `skip` occurrences before it
SkipthOccurrence(S, F, cs, skip) ==
    {p \in Occurrences(S, F, cs) :
        Cardinality({q \in Occurrences(S, F, cs) : Before(q, p)}) = skip}

C17_EdgeCycleQueries ==
    /\ op = "is_in_cycle" =>
          /\ ret = "none" <=> arg.skip >= get_cycles_count(arg.S, arg.F, arg.cycles)
          /\ ret = "none" <=> SkipthOccurrence(arg.S, arg.F, arg.cycles, arg.skip) = {}
          /\ ret = "result" =>
                \E p \in SkipthOccurrence(arg.S, arg.F, arg.cycles, arg.skip) :
                    out = p[1] - 1
    /\ op = "get_cycles_count" =>
          out = Cardinality(Occurrences(arg.S, arg.F, arg.cycles))

\* a query for the second occurrence of an edge that two cycles share
C17_Witness ==
    /\ op = "is_in_cycle"
    /\ arg.skip = 1
    /\ ret = "result"
    /\ out = 1
    /\ get_cycles_count(arg.S, arg.F, arg.cycles) = 2

(***************************************************************************)
(* C18.  Bellman-Ford applies the tie policy of DAG-DP and Dijkstra: when  *)
(* relaxing (u, v) gives exactly the current finite distances[v], the      *)
(* paths p + [v], p in paths[u], are added to paths[v]; so for a graph     *)
(* without negative cycles paths[v] holds every minimum-weight path from   *)
(* the source to v.                                                        *)
(***************************************************************************)
NoNegativeCycle(m) ==
    \A c \in SimpleCycles([i \in V |-> [j \in V |->
                              IF IsEdge(m, i, j) THEN m[i][j] ELSE 0]]) :
        CycleWeight(m, c) >= 0

C18_BellmanFordKeepsTies ==
    (op = "bellman_ford" /\ ret = "result" /\ NoNegativeCycle(arg.matrix)) =>
        \A v \in V :
            ShortestPathsTo(arg.matrix, arg.source, v) \subseteq Range(out.paths[v])

(***************************************************************************)
(* C19.  In the result of Floyd-Warshall on a matrix with non-negative     *)
(* weights (self-loops allowed), for every pair (i, j) of finite           *)
(* distances[i][j], paths[i][j] is one vertex sequence that starts at i,   *)
(* ends at j, follows existing edges and whose weights sum to              *)
(* distances[i][j]; paths[i][i] = [i] goes with distances[i][i] = 0; a     *)
(* pair of infinite distance has the empty path.                           *)
(***************************************************************************)
IsPathOfWeight(m, p, i, j, d) ==
    /\ Len(p) >= 1
    /\ p[1] = i
    /\ p[Len(p)] = j
    /\ \A k \in 1..(Len(p) - 1) : IsEdge(m, p[k], p[k + 1])
    /\ PathWeight(m, p) = d

C19_FloydWarshallPathsMatchDistances ==
    (op = "shortest_path_floyd_warshall" /\ NonNegative(arg.matrix)) =>
        \A i \in V : \A j \in V :
            IF out.dp[i][j] # INF
            THEN /\ IsPathOfWeight(arg.matrix, out.paths[i][j], i, j, out.dp[i][j])
                 /\ i = j => (out.paths[i][j] = <<i>> /\ out.dp[i][j] = 0)
            ELSE out.paths[i][j] = <<>>

====
